---- MODULE Spec2Model ----
(***************************************************************************)
(* A model of packages/monosize/src/reporters/markdownReporter.mts: the    *)
(* Markdown reporter of monosize.  One behaviour is one invocation of      *)
(* markdownReporter(report, options) followed by the completion callback   *)
(* of the fs.writeFile it may have started.                                *)
(*                                                                         *)
(* Text is kept as the code builds it: reportOutput is a sequence of       *)
(* lines (join('\n') keeps that sequence), and a line is the sequence of   *)
(* the pieces of its template literal, every piece a string.  Three        *)
(* characters of the source cannot be written in a TLA+ string and have    *)
(* stand-ins: the grave accent U+0060 that delimits a Markdown code span   *)
(* is Tick, and the emoji are written as their GitHub short codes.         *)
(***************************************************************************)
EXTENDS Integers, Sequences, FiniteSets, TLC

VARIABLES
    report,       \* the report argument: a sequence of entries
    options,      \* the options argument
    packageRoot,  \* environment: does findPackageRoot(dirname) find a root
    pc,           \* "ready" | "returned" | "threw": the invocation's outcome
    stdout,       \* console.log calls, in order; each is a text (sequence of lines)
    stderr,       \* console.error calls, in order
    writes,       \* fs.writeFile calls: [file, content, status]
    deltaCalls,   \* formatDelta calls: [entry, metric]
    trace         \* the invocation's effects, in the order they happen

vars == <<report, options, packageRoot, pc, stdout, stderr, writes, deltaCalls, trace>>

(***************************************************************************)
(* Bounds and input domains                                                *)
(***************************************************************************)
MaxEntries == 2

CommitSHAs == {"abc1234", "fed9876"}
Repositories == {"https://github.com/microsoft/monosize"}
OutputFiles == {"", "out/report.md"}
DeltaFormats == {"delta", "percent"}
Null == "null"
WriteErrors == {"ENOENT"}

\* <<diff.empty, diff.minified.delta, diff.gzip.delta>> of an entry
Shapes ==
    {<<FALSE, m, g>> : m \in {-500, 0, 300}, g \in {-200, 0, 100}}
        \cup {<<TRUE, 1500, 600>>, <<TRUE, -500, 0>>, <<TRUE, 0, 0>>}

MkMetric(empty, size, delta) ==
    [delta |-> delta,
     percent |-> IF empty \/ size = delta
                 THEN "100%"
                 ELSE ToString((delta * 100) \div (size - delta)) \o "%"]

MkEntry(i, s) ==
    [packageName |-> "@scope/pkg" \o ToString(i),
     name |-> "entry" \o ToString(i),
     path |-> "entry" \o ToString(i) \o ".fixture.js",
     minifiedSize |-> 1500,
     gzippedSize |-> 600,
     diff |-> [empty |-> s[1],
               minified |-> MkMetric(s[1], 1500, s[2]),
               gzip |-> MkMetric(s[1], 600, s[3])]]

Reports ==
    UNION {{[i \in 1..n |-> MkEntry(i, f[i])] : f \in [1..n -> Shapes]} : n \in 0..MaxEntries}

Options ==
    [commitSHA : CommitSHAs, repository : Repositories, showUnchanged : BOOLEAN,
     deltaFormat : DeltaFormats, outputFile : OutputFiles]

(***************************************************************************)
(* Helpers                                                                 *)
(***************************************************************************)
Tick == "^"

Line(s) == <<s>>

Code(s) == Tick \o s \o Tick

Abs(n) == IF n < 0 THEN -n ELSE n

Count(s, x) == Cardinality({i \in 1..Len(s) : s[i] = x})

Index(s, x) == CHOOSE i \in 1..Len(s) : s[i] = x

(***************************************************************************)
(* External collaborators                                                  *)
(***************************************************************************)
\* ../utils/helpers.mjs: human-readable size, at most three fraction digits
Fraction(f) ==
    IF f = 0 THEN ""
    ELSE IF f % 10 # 0 THEN "." \o ToString(f \div 100) \o ToString((f \div 10) % 10) \o ToString(f % 10)
    ELSE IF f % 100 # 0 THEN "." \o ToString(f \div 100) \o ToString((f \div 10) % 10)
    ELSE "." \o ToString(f \div 100)

formatBytes(value) ==
    LET a == Abs(value)
        sign == IF value < 0 THEN "-" ELSE ""
    IN  IF a < 1000
        THEN sign \o ToString(a) \o " B"
        ELSE sign \o ToString(a \div 1000) \o Fraction(a % 1000) \o " kB"

\* ../utils/getChangedEntriesInReport.mjs: an entry is changed when a measurement
\* differs from the baseline
IsChanged(entry) == entry.diff.minified.delta # 0 \/ entry.diff.gzip.delta # 0

IsUnchanged(entry) == ~IsChanged(entry)

getChangedEntriesInReport(rep) ==
    [changedEntries |-> SelectSeq(rep, IsChanged),
     unchangedEntries |-> SelectSeq(rep, IsUnchanged)]

\* ./shared.mjs: a plain string, or a { deltaOutput, dirSymbol } pair
\* (directionSymbol, a callback, is a function here)
formatDeltaFactory(diff, deltaFormat, directionSymbol) ==
    IF diff.delta = 0
    THEN [type |-> "string", value |-> ""]
    ELSE [type |-> "object",
          deltaOutput |-> IF deltaFormat = "delta" THEN formatBytes(diff.delta) ELSE diff.percent,
          dirSymbol |-> directionSymbol[diff.delta]]

(***************************************************************************)
(* markdownReporter.mts                                                    *)
(***************************************************************************)
icons == [increase |-> "increase.png", decrease |-> "decrease.png"]

img(iconName) ==
    "<img aria-hidden=\"true\" src=\"https://microsoft.github.io/monosize/images/"
        \o iconName \o "\" />"

getDirectionSymbolSwapped(value) ==
    IF value < 0 THEN img(icons.increase)
    ELSE IF value > 0 THEN img(icons.decrease)
    ELSE ""

getDirectionSymbol(value) ==
    IF value < 0 THEN img(icons.decrease)
    ELSE IF value > 0 THEN img(icons.increase)
    ELSE ""

formatDelta(diff, deltaFormat) ==
    LET output == formatDeltaFactory(diff, deltaFormat, [value \in Int |-> getDirectionSymbol(value)])
    IN  IF output.type = "string"
        THEN output.value
        ELSE Code(output.deltaOutput) \o " " \o output.dirSymbol

footer(opts) ==
    "<sub>:robot: This report was generated against <a href='" \o opts.repository
        \o "/commit/" \o opts.commitSHA \o "'>" \o opts.commitSHA \o "</a></sub>"

title(entry) ==
    "<samp>" \o entry.packageName \o "</samp> <br /> <abbr title='" \o entry.path
        \o "'>" \o entry.name \o "</abbr>"

beforeAlwaysSubtracts(entry) ==
    Code(formatBytes(entry.minifiedSize - entry.diff.minified.delta)) \o "<br />"
        \o Code(formatBytes(entry.gzippedSize - entry.diff.gzip.delta))

beforeOneDelta(entry) ==
    IF entry.diff.empty
    THEN Code(formatBytes(0)) \o "<br />" \o Code(formatBytes(0))
    ELSE Code(formatBytes(entry.minifiedSize - entry.diff.minified.delta)) \o "<br />"
             \o Code(formatBytes(entry.gzippedSize - entry.diff.minified.delta))

before(entry) ==
    IF entry.diff.empty
    THEN Code(formatBytes(0)) \o "<br />" \o Code(formatBytes(0))
    ELSE Code(formatBytes(entry.minifiedSize - entry.diff.minified.delta)) \o "<br />"
             \o Code(formatBytes(entry.gzippedSize - entry.diff.gzip.delta))

after(entry) ==
    Code(formatBytes(entry.minifiedSize)) \o "<br />" \o Code(formatBytes(entry.gzippedSize))

difference(entry, deltaFormat) ==
    IF entry.diff.empty
    THEN ":new: New entry"
    ELSE formatDelta(entry.diff.minified, deltaFormat) \o "<br />"
             \o formatDelta(entry.diff.gzip, deltaFormat)

\* the formatDelta calls that building difference makes for one entry
differenceCalls(entry) ==
    IF entry.diff.empty
    THEN <<>>
    ELSE <<[entry |-> entry.name, metric |-> "minified"],
           [entry |-> entry.name, metric |-> "gzip"]>>

\* the formatDelta calls of the whole forEach over the changed entries
RECURSIVE forEachDifferenceCalls(_)
forEachDifferenceCalls(entries) ==
    IF entries = <<>>
    THEN <<>>
    ELSE differenceCalls(Head(entries)) \o forEachDifferenceCalls(Tail(entries))

changedRow(entry, deltaFormat) ==
    <<"| ", title(entry), " | ", before(entry), " | ", after(entry), " | ",
      difference(entry, deltaFormat), "|">>

changedTable(changedEntries, deltaFormat) ==
    <<Line("| Package & Exports | Baseline (minified/GZIP) | PR    | Change     |"),
      Line("| :---------------- | -----------------------: | ----: | ---------: |")>>
        \o [i \in 1..Len(changedEntries) |-> changedRow(changedEntries[i], deltaFormat)]
        \o <<Line("")>>

unchangedRow(entry) ==
    <<"| ", title(entry), " | ", after(entry), " |">>

unchangedDetails(unchangedEntries) ==
    <<Line("<details>"),
      Line("<summary>Unchanged fixtures</summary>"),
      Line(""),
      Line("| Package & Exports | Size (minified/GZIP) |"),
      Line("| ----------------- | -------------------: |")>>
        \o [i \in 1..Len(unchangedEntries) |-> unchangedRow(unchangedEntries[i])]
        \o <<Line("</details>")>>

unchangedSectionAlways(unchangedEntries, showUnchanged) ==
    IF Len(unchangedEntries) > 0 THEN unchangedDetails(unchangedEntries) ELSE <<>>

unchangedSection(unchangedEntries, showUnchanged) ==
    IF showUnchanged /\ Len(unchangedEntries) > 0
    THEN unchangedDetails(unchangedEntries)
    ELSE <<>>

reportHeader == <<Line("## :bar_chart: Bundle size report"), Line("")>>

\* lines 49-116: the path of a report with changed entries
changesPathFooterFirst(split, opts) ==
    LET reportOutput ==
            reportHeader
                \o changedTable(split.changedEntries, opts.deltaFormat)
                \o <<Line(footer(opts))>>
                \o unchangedSection(split.unchangedEntries, opts.showUnchanged)
    IN  [outcome |-> "returned",
         stdout |-> <<reportOutput>>,
         writes |-> IF opts.outputFile # ""
                    THEN <<[file |-> opts.outputFile, content |-> reportOutput,
                            status |-> "pending", err |-> Null]>>
                    ELSE <<>>,
         deltaCalls |-> forEachDifferenceCalls(split.changedEntries),
         trace |-> <<"stdout:report">>
                       \o (IF opts.outputFile # "" THEN <<"fs.writeFile">> ELSE <<>>)
                       \o <<"return">>]

changesPath(split, opts) ==
    LET reportOutput ==
            reportHeader
                \o changedTable(split.changedEntries, opts.deltaFormat)
                \o unchangedSection(split.unchangedEntries, opts.showUnchanged)
                \o <<Line(footer(opts))>>
    IN  [outcome |-> "returned",
         stdout |-> <<reportOutput>>,
         writes |-> IF opts.outputFile # ""
                    THEN <<[file |-> opts.outputFile, content |-> reportOutput,
                            status |-> "pending", err |-> Null]>>
                    ELSE <<>>,
         deltaCalls |-> forEachDifferenceCalls(split.changedEntries),
         trace |-> <<"stdout:report">>
                       \o (IF opts.outputFile # "" THEN <<"fs.writeFile">> ELSE <<>>)
                       \o <<"return">>]

\* lines 43-47: the early return of a report without changed entries
noChangesPathFallsThrough(split, opts) ==
    LET reportOutput ==
            reportHeader
                \o <<Line(":white_check_mark: No changes found")>>
                \o unchangedSection(split.unchangedEntries, opts.showUnchanged)
                \o <<Line(footer(opts))>>
    IN  [outcome |-> "returned",
         stdout |-> <<reportOutput>>,
         writes |-> <<>>,
         deltaCalls |-> <<>>,
         trace |-> <<"stdout:report", "return">>]

noChangesPath(split, opts) ==
    LET reportOutput == reportHeader \o <<Line(":white_check_mark: No changes found")>>
    IN  [outcome |-> "returned",
         stdout |-> <<reportOutput>>,
         writes |-> <<>>,
         deltaCalls |-> <<>>,
         trace |-> <<"stdout:report", "return">>]

\* lines 39-116: everything after assertPackageRoot()
reporterBody(rep, opts) ==
    LET split == getChangedEntriesInReport(rep)
        path == IF Len(split.changedEntries) = 0
                THEN noChangesPath(split, opts)
                ELSE changesPath(split, opts)
    IN  [path EXCEPT !.trace = <<"getChangedEntriesInReport">> \o @]

\* lines 120-132: does assertPackageRoot() return (TRUE) or throw (FALSE)
assertPackageRoot(root) == root

\* lines 33-118: the effects of one call, in order
runAssertsLast(rep, opts, root) ==
    LET body == reporterBody(rep, opts)
    IN  IF assertPackageRoot(root)
        THEN [body EXCEPT !.trace = @ \o <<"findPackageRoot">>]
        ELSE [body EXCEPT !.outcome = "threw",
                          !.trace = SubSeq(@, 1, Len(@) - 1) \o <<"findPackageRoot", "throw">>]

run(rep, opts, root) ==
    IF assertPackageRoot(root)
    THEN LET body == reporterBody(rep, opts)
         IN  [body EXCEPT !.trace = <<"findPackageRoot">> \o @]
    ELSE [outcome |-> "threw",
          stdout |-> <<>>,
          writes |-> <<>>,
          deltaCalls |-> <<>>,
          trace |-> <<"findPackageRoot", "throw">>]

(***************************************************************************)
(* The state machine                                                       *)
(***************************************************************************)
Init ==
    /\ report \in Reports
    /\ options \in Options
    /\ packageRoot \in BOOLEAN
    /\ pc = "ready"
    /\ stdout = <<>>
    /\ stderr = <<>>
    /\ writes = <<>>
    /\ deltaCalls = <<>>
    /\ trace = <<>>

markdownReporter ==
    /\ pc = "ready"
    /\ LET r == run(report, options, packageRoot)
       IN  /\ pc' = r.outcome
           /\ stdout' = r.stdout
           /\ writes' = r.writes
           /\ deltaCalls' = r.deltaCalls
           /\ trace' = r.trace
    /\ UNCHANGED <<report, options, packageRoot, stderr>>

\* lines 108-115: the callback of fs.writeFile, run when the write has ended
writeFileCallbackThrows(err) ==
    /\ Len(writes) > 0
    /\ writes[1].status = "pending"
    /\ writes' = [writes EXCEPT ![1].status = IF err # Null THEN "failed" ELSE "ok",
                                ![1].err = err]
    /\ pc' = IF err # Null THEN "threw" ELSE pc
    /\ stdout' = stdout \o <<<<Line("writing to file " \o writes[1].file)>>>>
                     \o (IF err # Null
                         THEN <<>>
                         ELSE <<<<Line("Content written to file successfully!")>>>>)
    /\ stderr' = stderr
    /\ trace' = trace \o <<"writeFile:done", "stdout:writing">>
                    \o (IF err # Null THEN <<"throw">> ELSE <<"stdout:success">>)
    /\ UNCHANGED <<report, options, packageRoot, deltaCalls>>

writeFileCallbackLogsBoth(err) ==
    /\ Len(writes) > 0
    /\ writes[1].status = "pending"
    /\ writes' = [writes EXCEPT ![1].status = IF err # Null THEN "failed" ELSE "ok",
                                ![1].err = err]
    /\ stdout' = stdout \o <<<<Line("writing to file " \o writes[1].file)>>,
                             <<Line("Content written to file successfully!")>>>>
    /\ stderr' = IF err # Null
                 THEN Append(stderr, "Error writing to file: " \o err)
                 ELSE stderr
    /\ trace' = trace \o <<"writeFile:done", "stdout:writing">>
                    \o (IF err # Null THEN <<"stderr:error">> ELSE <<>>)
                    \o <<"stdout:success">>
    /\ UNCHANGED <<report, options, packageRoot, pc, deltaCalls>>

writeFileCallback(err) ==
    /\ Len(writes) > 0
    /\ writes[1].status = "pending"
    /\ writes' = [writes EXCEPT ![1].status = IF err # Null THEN "failed" ELSE "ok",
                                ![1].err = err]
    /\ stdout' = stdout \o <<<<Line("writing to file " \o writes[1].file)>>>>
                     \o (IF err # Null
                         THEN <<>>
                         ELSE <<<<Line("Content written to file successfully!")>>>>)
    /\ stderr' = IF err # Null
                 THEN Append(stderr, "Error writing to file: " \o err)
                 ELSE stderr
    /\ trace' = trace \o <<"writeFile:done", "stdout:writing">>
                    \o (IF err # Null THEN <<"stderr:error">> ELSE <<"stdout:success">>)
    /\ UNCHANGED <<report, options, packageRoot, pc, deltaCalls>>

Next ==
    \/ markdownReporter
    \/ \E err \in WriteErrors \cup {Null} : writeFileCallback(err)

Spec == Init /\ [][Next]_vars

(***************************************************************************)
(* Properties                                                              *)
(***************************************************************************)
Changed == getChangedEntriesInReport(report).changedEntries

Unchanged == getChangedEntriesInReport(report).unchangedEntries

\* the text of the report's console.log, the first thing an invocation prints
Printed == stdout[1]

\* the i-th row of the changed table: two header lines, two table-head lines, the rows
Row(i) == Printed[4 + i]

ExpectedFooterLine ==
    <<"<sub>:robot: This report was generated against <a href='" \o options.repository
          \o "/commit/" \o options.commitSHA \o "'>" \o options.commitSHA \o "</a></sub>">>

FooterOnceAndLast(text) ==
    /\ Len(text) > 0
    /\ text[Len(text)] = ExpectedFooterLine
    /\ Count(text, ExpectedFooterLine) = 1

\* C1 (as claimed): every invocation that passes the project-root check prints the
\* footer line, built from commitSHA and repository, exactly once and as the last
\* line of the text, whatever the number of changed entries.
C1_FooterAlways ==
    pc = "returned" => FooterOnceAndLast(Printed)

\* C1 (amended): an invocation that passes the project-root check and whose report
\* has at least one changed entry prints the footer line exactly once and as the
\* last line of the text, for every showUnchanged and outputFile; with no changed
\* entry the printed text holds no footer line.
C1_FooterWhenChanged ==
    pc = "returned" =>
        /\ Len(Changed) > 0 => FooterOnceAndLast(Printed)
        /\ Len(Changed) = 0 => Count(Printed, ExpectedFooterLine) = 0

C1_Witness ==
    /\ pc = "returned"
    /\ Len(Changed) > 0
    /\ Len(Unchanged) > 0
    /\ options.showUnchanged
    /\ Printed[Len(Printed)] = ExpectedFooterLine

\* C2: every invocation that passes the project-root check prints the assembled
\* text to standard output and, when outputFile is configured, starts a write of
\* that same text to outputFile, also for a report with no changed entry.
C2_PrintedAndWritten ==
    pc = "returned" =>
        /\ Len(stdout) >= 1
        /\ options.outputFile # "" =>
               /\ Len(writes) = 1
               /\ writes[1].file = options.outputFile
               /\ writes[1].content = Printed

\* C3: with no changed entry the printed text is exactly the title line, the blank
\* line and the "No changes found" line, and nothing else is printed, for every
\* showUnchanged and every number of unchanged entries.
C3_NoChangesExact ==
    pc = "returned" /\ Len(Changed) = 0 =>
        stdout = << <<<<"## :bar_chart: Bundle size report">>,
                      <<"">>,
                      <<":white_check_mark: No changes found">>>> >>

C3_Witness ==
    /\ pc = "returned"
    /\ Len(Changed) = 0
    /\ Len(Unchanged) > 0
    /\ options.showUnchanged
    /\ Len(Printed) = 3

\* C4: the project-root check runs exactly once per invocation and first; when no
\* package root is found the invocation throws, and then nothing was printed, the
\* classifier was not consulted and no file write was started.
C4_RootCheckFirst ==
    /\ pc # "ready" =>
           /\ Count(trace, "findPackageRoot") = 1
           /\ trace[1] = "findPackageRoot"
    /\ pc # "ready" /\ ~packageRoot => pc = "threw"
    /\ pc = "threw" =>
           /\ stdout = <<>>
           /\ stderr = <<>>
           /\ writes = <<>>
           /\ deltaCalls = <<>>
           /\ Count(trace, "getChangedEntriesInReport") = 0
           /\ Count(trace, "stdout:report") = 0
           /\ Count(trace, "fs.writeFile") = 0

C4_Witness ==
    /\ pc = "threw"
    /\ ~packageRoot
    /\ Len(Changed) > 0
    /\ options.outputFile # ""

\* C5: the file write is fire-and-forget: markdownReporter has returned before the
\* write ends, a write that fails never makes the invocation throw, the failure is
\* logged to the error channel, and the report of that invocation was printed to
\* standard output before.
C5_FireAndForget ==
    /\ Len(writes) > 0 => Count(trace, "return") = 1
    /\ Count(trace, "writeFile:done") > 0 =>
           Index(trace, "return") < Index(trace, "writeFile:done")
    /\ \A i \in 1..Len(writes) :
           writes[i].status = "failed" =>
               /\ pc = "returned"
               /\ Count(trace, "throw") = 0
               /\ stderr = <<"Error writing to file: " \o writes[i].err>>
               /\ Printed = writes[i].content
               /\ Index(trace, "stdout:report") < Index(trace, "stderr:error")

C5_Witness ==
    /\ Len(writes) = 1
    /\ writes[1].status = "failed"
    /\ writes[1].err = "ENOENT"
    /\ Len(stderr) = 1

\* C6: the row of a changed entry whose diff is empty (a new entry) shows
\* formatBytes(0) for both metrics in its before-cell and the "New entry" marker in
\* its change-cell, and formatDelta is never called for that entry, whatever its
\* stored deltas.
C6_NewEntryRow ==
    pc = "returned" /\ Len(Changed) > 0 =>
        \A i \in 1..Len(Changed) :
            Changed[i].diff.empty =>
                /\ Row(i)[4] = Tick \o formatBytes(0) \o Tick \o "<br />"
                                   \o Tick \o formatBytes(0) \o Tick
                /\ Row(i)[8] = ":new: New entry"
                /\ \A j \in 1..Len(deltaCalls) : deltaCalls[j].entry # Changed[i].name

C6_Witness ==
    /\ pc = "returned"
    /\ \E i \in 1..Len(Changed) :
           /\ Changed[i].diff.empty
           /\ Changed[i].diff.minified.delta = -500
           /\ Row(i)[8] = ":new: New entry"

\* C7: the before-cell of a changed entry whose diff is not empty is formatted from
\* minifiedSize - diff.minified.delta and gzippedSize - diff.gzip.delta, each metric
\* with its own delta, by the byte formatter that formats the after-cell (1500 with
\* delta -500 gives 2000).
C7_BeforeIsAfterMinusDelta ==
    pc = "returned" /\ Len(Changed) > 0 =>
        \A i \in 1..Len(Changed) :
            LET e == Changed[i]
            IN  ~e.diff.empty =>
                    /\ Row(i)[4] =
                           Tick \o formatBytes(e.minifiedSize - e.diff.minified.delta) \o Tick
                               \o "<br />"
                               \o Tick \o formatBytes(e.gzippedSize - e.diff.gzip.delta) \o Tick
                    /\ Row(i)[6] =
                           Tick \o formatBytes(e.minifiedSize) \o Tick \o "<br />"
                               \o Tick \o formatBytes(e.gzippedSize) \o Tick
                    /\ e.diff.minified.delta = -500 /\ e.diff.gzip.delta = -200 =>
                           Row(i)[4] = "^2 kB^<br />^800 B^"

C7_Witness ==
    /\ pc = "returned"
    /\ \E i \in 1..Len(Changed) :
           /\ ~Changed[i].diff.empty
           /\ Changed[i].diff.minified.delta = -500
           /\ Changed[i].diff.gzip.delta = -200
           /\ Row(i)[4] = "^2 kB^<br />^800 B^"

DecreaseIcon ==
    "<img aria-hidden=\"true\" src=\"https://microsoft.github.io/monosize/images/decrease.png\" />"

IncreaseIcon ==
    "<img aria-hidden=\"true\" src=\"https://microsoft.github.io/monosize/images/increase.png\" />"

ExpectedIcon(v) == IF v < 0 THEN DecreaseIcon ELSE IF v > 0 THEN IncreaseIcon ELSE ""

ExpectedDeltaCell(metric) ==
    IF metric.delta = 0
    THEN ""
    ELSE Tick \o (IF options.deltaFormat = "delta"
                  THEN formatBytes(metric.delta)
                  ELSE metric.percent)
             \o Tick \o " " \o ExpectedIcon(metric.delta)

\* C8: getDirectionSymbol gives the decrease icon for a negative value, the increase
\* icon for a positive value and the empty string for zero, and in the row of a
\* changed entry that is not new each of the two deltas carries the icon of its own
\* sign.
C8_DirectionSymbols ==
    /\ \A v \in {-500, -200, -1, 0, 1, 100, 300} : getDirectionSymbol(v) = ExpectedIcon(v)
    /\ pc = "returned" /\ Len(Changed) > 0 =>
           \A i \in 1..Len(Changed) :
               ~Changed[i].diff.empty =>
                   Row(i)[8] = ExpectedDeltaCell(Changed[i].diff.minified) \o "<br />"
                                   \o ExpectedDeltaCell(Changed[i].diff.gzip)

C8_Witness ==
    /\ pc = "returned"
    /\ \E i \in 1..Len(Changed) :
           /\ ~Changed[i].diff.empty
           /\ Changed[i].diff.minified.delta < 0
           /\ Changed[i].diff.gzip.delta > 0
           /\ Row(i)[8] = ExpectedDeltaCell(Changed[i].diff.minified) \o "<br />"
                              \o ExpectedDeltaCell(Changed[i].diff.gzip)

\* C9: in a report with a changed entry the collapsible section of unchanged
\* entries is printed if and only if showUnchanged is set and an entry is unchanged;
\* it then has one row per unchanged entry, showing that entry's current sizes only,
\* and stands after the changed table and before the footer.
C9_UnchangedSection ==
    pc = "returned" /\ Len(Changed) > 0 =>
        LET k == 5 + Len(Changed)
            n == Len(Unchanged)
        IN  /\ Printed[k] = <<"">>
            /\ Count(Printed, <<"<details>">>) =
                   (IF options.showUnchanged /\ n > 0 THEN 1 ELSE 0)
            /\ ~(options.showUnchanged /\ n > 0) =>
                   /\ Len(Printed) = k + 1
                   /\ Count(Printed, <<"</details>">>) = 0
            /\ options.showUnchanged /\ n > 0 =>
                   /\ Len(Printed) = k + 7 + n
                   /\ Printed[k + 1] = <<"<details>">>
                   /\ Printed[k + 2] = <<"<summary>Unchanged fixtures</summary>">>
                   /\ \A j \in 1..n :
                          Printed[k + 5 + j] =
                              <<"| ",
                                "<samp>" \o Unchanged[j].packageName
                                    \o "</samp> <br /> <abbr title='" \o Unchanged[j].path
                                    \o "'>" \o Unchanged[j].name \o "</abbr>",
                                " | ",
                                Tick \o formatBytes(Unchanged[j].minifiedSize) \o Tick
                                    \o "<br />"
                                    \o Tick \o formatBytes(Unchanged[j].gzippedSize) \o Tick,
                                " |">>
                   /\ Printed[k + 6 + n] = <<"</details>">>
                   /\ Printed[k + 7 + n] = ExpectedFooterLine

C9_Witness ==
    /\ pc = "returned"
    /\ Len(Changed) > 0
    /\ Len(Unchanged) > 0
    /\ options.showUnchanged
    /\ Count(Printed, <<"<details>">>) = 1

WriteLogs == {"stdout:writing", "stdout:success", "stderr:error"}

\* C10: within one invocation the report is printed exactly once, then (only with
\* outputFile configured) the file write is started at most once, the write's log
\* lines come only after the write has ended, and each ended write logs exactly one
\* of the success message and the error message.
C10_EffectOrder ==
    /\ Count(trace, "stdout:report") <= 1
    /\ pc = "returned" => Count(trace, "stdout:report") = 1
    /\ Count(trace, "fs.writeFile") <= 1
    /\ Count(trace, "fs.writeFile") = Len(writes)
    /\ Count(trace, "fs.writeFile") = 1 =>
           /\ options.outputFile # ""
           /\ Index(trace, "stdout:report") < Index(trace, "fs.writeFile")
    /\ \A k \in 1..Len(trace) :
           trace[k] \in WriteLogs =>
               \E j \in 1..(k - 1) :
                   /\ trace[j] = "writeFile:done"
                   /\ Index(trace, "fs.writeFile") < j
    /\ Len(stdout) = Count(trace, "stdout:report") + Count(trace, "stdout:writing")
                         + Count(trace, "stdout:success")
    /\ Len(stderr) = Count(trace, "stderr:error")
    /\ \A i \in 1..Len(writes) :
           /\ writes[i].status = "pending" =>
                  \A k \in 1..Len(trace) : trace[k] \notin WriteLogs
           /\ writes[i].status = "ok" =>
                  /\ Count(trace, "stdout:success") = 1
                  /\ Count(trace, "stderr:error") = 0
                  /\ stdout[Len(stdout)] = <<<<"Content written to file successfully!">>>>
           /\ writes[i].status = "failed" =>
                  /\ Count(trace, "stdout:success") = 0
                  /\ Count(trace, "stderr:error") = 1
                  /\ Count(stdout, <<<<"Content written to file successfully!">>>>) = 0

C10_Witness ==
    /\ Len(writes) = 1
    /\ writes[1].status = "ok"
    /\ Len(stdout) = 3
    /\ trace[Len(trace)] = "stdout:success"

====
